---- MODULE Spec2Model ----
(***************************************************************************)
(* Resumable chunked upload of the facility upload application.            *)
(*                                                                         *)
(* The model covers the server side store ResumableUploadManager           *)
(* (utils/resumableUpload.js) and the request handlers that drive it       *)
(* (initializeResumableUpload, getResumableUploadProgress, uploadChunk,    *)
(* completeResumableUpload, cancelResumableUpload).                        *)
(*                                                                         *)
(* Node runs one handler at a time: a handler is atomic up to its next     *)
(* await.  init, progress, chunk and cancel never await, so each is one    *)
(* action.  completeResumableUpload awaits the assembly (one event per     *)
(* chunk read, one for the 'finish' of the write stream) and each          *)
(* registry statement, so it is a process with a program counter.          *)
(***************************************************************************)
EXTENDS Integers, Sequences, FiniteSets, TLC

(***************************************************************************)
(* Bounds of the model.                                                    *)
(***************************************************************************)
MaxChunkNumber == 3   \* chunk numbers a client submits: 1..MaxChunkNumber
MaxTime == 1          \* the clock (Date.now(), NOW()) runs over 0..MaxTime
MaxRecords == 2       \* facility ids handed out: 1..MaxRecords
NumRequests == 2      \* complete requests that can be in flight together

(***************************************************************************)
(* Program constants.                                                      *)
(***************************************************************************)
DefaultChunkSize == 5242880
MAX_FACILITIES == 1

(***************************************************************************)
(* Inputs.                                                                 *)
(***************************************************************************)
FileNames == {"dump.sql"}
FileSizes == {0, 5242881}
FileHashes == {"abc123"}
Contents == {"x"}
FacilityCodes == {"HOSP-A"}
ChunkNumbers == 1..MaxChunkNumber
Requests == 1..NumRequests
Times == 0..MaxTime

\* Variant of generateUploadId that leaves the file hash out of the digest.
generateUploadIdNoHash(filename, fileSize, fileHash) ==
    filename \o "-" \o ToString(fileSize)

\* crypto md5 of `${filename}-${fileSize}-${fileHash}`: the digest is taken
\* as collision free, so the id is the hashed string itself.
generateUploadId(filename, fileSize, fileHash) ==
    filename \o "-" \o ToString(fileSize) \o "-" \o fileHash

UploadIds ==
    {generateUploadId(n, s, h) : n \in FileNames, s \in FileSizes \ {0}, h \in FileHashes}

\* Wider inputs, for the specifications that compare chunk contents or
\* upload ids: a second chunk content, a second file hash.
MoreContents == {"x", "y"}
MoreHashes == {"abc123", "def456"}
MoreCodes == {"HOSP-A", "HOSP-B", "HOSP-C"}
MoreSizes == {-1, 0, 1, 5242880, 5242881, 12000000}
MaxAges == {0, 1}   \* maxAgeHours, in units of the clock
ChunkSizes == {0, 1, 1024, 5242880}   \* 0: no chunkSize given
AllUploadIds ==
    {generateUploadId(n, s, h) : n \in FileNames, s \in FileSizes \ {0}, h \in MoreHashes}
    \cup
    {generateUploadId(n, s, h) : n \in FileNames, s \in MoreSizes \ {0}, h \in FileHashes}

\* Math.ceil(a / b) for b > 0
Ceil(a, b) == -((-a) \div b)

Absent == "absent"
Missing == "missing"   \* a request without the chunk file part
NoMeta == [present |-> FALSE, totalChunks |-> 0, uploadedChunks |-> <<>>, status |-> "",
           mtime |-> 0, fileSize |-> 0, chunkSize |-> 0, uploadedSize |-> 0]
NoFile == <<"nofile">>

VARIABLES
    metadata,    \* chunksDir/<uploadId>-metadata.json, per upload id
    chunkFiles,  \* chunksDir/<uploadId>-chunk-<n>: content or Absent
    outFiles,    \* uploads/<code>_<time>.sql: the chunks written, or NoFile
    facilities,  \* rows of the table facilities
    nextId,      \* the SERIAL of facilities.id
    now,         \* the last value read from the clock (Date.now(), NOW())
    req,         \* the complete requests in flight
    resp,        \* the response sent by the last handler that answered
    client       \* the browser's ResumableUploadManager and its startUpload

vars == <<metadata, chunkFiles, outFiles, facilities, nextId, now, req, resp, client>>

Paths == MoreCodes \X Times

(***************************************************************************)
(* The store: ResumableUploadManager.                                      *)
(***************************************************************************)

\* initializeUpload: the metadata record written for a new session.
\* chunkSize 0 stands for a missing chunkSize, for which the default
\* applies; the handler passes none.
initializeUpload(fileSize, chunkSize) ==
    [present |-> TRUE,
     totalChunks |-> Ceil(fileSize, IF chunkSize = 0 THEN DefaultChunkSize ELSE chunkSize),
     uploadedChunks |-> <<>>,
     status |-> "in_progress",
     mtime |-> now,
     fileSize |-> fileSize,
     chunkSize |-> IF chunkSize = 0 THEN DefaultChunkSize ELSE chunkSize,
     uploadedSize |-> 0]

\* Variant of ProbeChunks that pushes every i without probing the file.
RECURSIVE ProbeChunksNoProbe(_, _, _, _)
ProbeChunksNoProbe(files, i, totalChunks, uploadedChunks) ==
    IF i > totalChunks THEN uploadedChunks
    ELSE ProbeChunksNoProbe(files, i + 1, totalChunks, Append(uploadedChunks, i))

\* The loop of getUploadProgress: for i = 1..totalChunks, push i when the
\* chunk file exists.
RECURSIVE ProbeChunks(_, _, _, _)
ProbeChunks(files, i, totalChunks, uploadedChunks) ==
    IF i > totalChunks THEN uploadedChunks
    ELSE ProbeChunks(files, i + 1, totalChunks,
                     IF files[i] # Absent THEN Append(uploadedChunks, i)
                     ELSE uploadedChunks)

\* Variant of getUploadProgress that writes an empty metadata file for an
\* upload that has none.
getUploadProgressCreate(meta, files) ==
    IF ~meta.present
    THEN [present |-> TRUE, totalChunks |-> 0, uploadedChunks |-> <<>>,
          status |-> "in_progress", mtime |-> now,
          fileSize |-> 0, chunkSize |-> 0, uploadedSize |-> 0]
    ELSE [meta EXCEPT !.uploadedChunks =
              ProbeChunks(files, 1, meta.totalChunks, <<>>),
                      !.mtime = now]

\* Variant of getUploadProgress that trusts the uploadedChunks stored in the
\* metadata file instead of probing the chunk files.
getUploadProgressStored(meta, files) ==
    IF ~meta.present THEN NoMeta ELSE [meta EXCEPT !.mtime = now]

\* getUploadProgress(uploadId): null (NoMeta) without a metadata file, else
\* the metadata with uploadedChunks recomputed from the chunk files and
\* uploadedSize from their number.  The result is also written back to the
\* metadata file, which sets its mtime.
getUploadProgress(meta, files) ==
    IF ~meta.present THEN NoMeta
    ELSE LET uploadedChunks == ProbeChunks(files, 1, meta.totalChunks, <<>>) IN
         [meta EXCEPT !.uploadedChunks = uploadedChunks,
                      !.uploadedSize = Len(uploadedChunks) * meta.chunkSize,
                      !.mtime = now]

\* Variant of saveChunk that writes every chunk of an upload to one path:
\* only the chunk written last is on disk.
saveChunkSingle(files, chunkNumber, chunkData) ==
    [k \in DOMAIN files |-> IF k = chunkNumber THEN chunkData ELSE Absent]

\* Variant of saveChunk that opens the chunk file with flag 'wx': an
\* existing chunk file is kept.
saveChunkKeepFirst(files, chunkNumber, chunkData) ==
    IF files[chunkNumber] # Absent THEN files
    ELSE [files EXCEPT ![chunkNumber] = chunkData]

\* saveChunk: writeFileSync of the chunk file, whatever the session state.
saveChunk(files, chunkNumber, chunkData) ==
    [files EXCEPT ![chunkNumber] = chunkData]

\* cleanupChunks, chunk files: nothing without a metadata file, else every
\* chunk file 1..totalChunks is unlinked.
cleanupChunksFiles(meta, files) ==
    IF ~meta.present THEN files
    ELSE [k \in ChunkNumbers |->
             IF k >= 1 /\ k <= meta.totalChunks THEN Absent ELSE files[k]]

\* cleanupChunks, metadata file: unlinked when present.
cleanupChunksMeta(meta) == NoMeta

\* Variant of cleanupChunksThrows without the early return: reading the
\* metadata of an upload that has none throws ENOENT.
cleanupChunksThrowsUnguarded(meta) == ~meta.present

\* cleanupChunks returns early without a metadata file and guards every
\* unlink by existsSync, so it never throws.
cleanupChunksThrows(meta) == FALSE

(***************************************************************************)
(* Responses.                                                              *)
(***************************************************************************)
Response(op, uploadId, status, msg, chunks, total) ==
    [op |-> op, uploadId |-> uploadId, status |-> status, msg |-> msg,
     uploadedChunks |-> chunks, totalChunks |-> total,
     chunkSize |-> IF op = "init" /\ status = 200 THEN 5 * 1024 * 1024 ELSE 0]

NoResponse == Response("none", "", 0, "", <<>>, 0)

Idle == [pc |-> "idle", uploadId |-> "", code |-> "", path |-> <<"", 0>>,
         totalChunks |-> 0, chunkIndex |-> 0, victim |-> 0]

\* The browser before startUpload is called.
ClientIdle == [pc |-> "idle", uploadId |-> "", totalChunks |-> 0, reported |-> <<>>,
               i |-> 0, retryCount |-> 0, attempts |-> 0, acked |-> <<>>,
               error |-> "", sessionHealthChecked |-> FALSE, health |-> "",
               onErrorCalls |-> 0, onCompleteCalls |-> 0]

Init ==
    /\ metadata = [u \in AllUploadIds |-> NoMeta]
    /\ chunkFiles = [u \in AllUploadIds |-> [k \in ChunkNumbers |-> Absent]]
    /\ outFiles = [p \in Paths |-> NoFile]
    /\ facilities = {}
    /\ nextId = 1
    /\ now = 0
    /\ req = [r \in Requests |-> Idle]
    /\ resp = NoResponse
    /\ client = ClientIdle

(***************************************************************************)
(* Handlers that never await.                                              *)
(***************************************************************************)

\* Variant of initializeResumableUpload that refuses an upload id whose
\* session exists.
initializeResumableUploadExclusive(fileName, fileSize, fileHash) ==
    LET uploadId == generateUploadId(fileName, fileSize, fileHash) IN
    IF fileName = "" \/ fileSize = 0 \/ fileHash = "" \/ metadata[uploadId].present
    THEN /\ resp' = Response("init", "", 400, "required", <<>>, 0)
         /\ UNCHANGED <<metadata, chunkFiles, outFiles, facilities, nextId,
                        now, req>>
    ELSE /\ metadata' = [metadata EXCEPT ![uploadId] = initializeUpload(fileSize, 0)]
         /\ resp' = Response("init", uploadId, 200, "ok", <<>>, 0)
         /\ UNCHANGED <<chunkFiles, outFiles, facilities, nextId, now, req>>

\* Variant of initializeResumableUpload that answers a missing field with
\* status 200.
initializeResumableUploadLenient(fileName, fileSize, fileHash) ==
    IF fileName = "" \/ fileSize = 0 \/ fileHash = ""
    THEN /\ resp' = Response("init", "", 200, "required", <<>>, 0)
         /\ UNCHANGED <<metadata, chunkFiles, outFiles, facilities, nextId,
                        now, req>>
    ELSE LET uploadId == generateUploadId(fileName, fileSize, fileHash) IN
         /\ metadata' = [metadata EXCEPT ![uploadId] = initializeUpload(fileSize, 0)]
         /\ resp' = Response("init", uploadId, 200, "ok", <<>>, 0)
         /\ UNCHANGED <<chunkFiles, outFiles, facilities, nextId, now, req>>

\* exports.initializeResumableUpload: a field that is missing, empty or 0
\* is answered with 400; "" and 0 stand for such a field.
initializeResumableUpload(fileName, fileSize, fileHash) ==
    IF fileName = "" \/ fileSize = 0 \/ fileHash = ""
    THEN /\ resp' = Response("init", "", 400, "required", <<>>, 0)
         /\ UNCHANGED <<metadata, chunkFiles, outFiles, facilities, nextId,
                        now, req>>
    ELSE LET uploadId == generateUploadId(fileName, fileSize, fileHash) IN
         /\ metadata' = [metadata EXCEPT ![uploadId] = initializeUpload(fileSize, 0)]
         /\ resp' = Response("init", uploadId, 200, "ok", <<>>, 0)
         /\ UNCHANGED <<chunkFiles, outFiles, facilities, nextId, now, req>>

\* A progress query that also unlinks the chunk files it did not list.
getResumableUploadProgressPrune(uploadId) ==
    LET progress == getUploadProgress(metadata[uploadId], chunkFiles[uploadId]) IN
    /\ metadata' = [metadata EXCEPT ![uploadId] = progress]
    /\ chunkFiles' = [chunkFiles EXCEPT ![uploadId] =
                         [k \in ChunkNumbers |->
                            IF \E i \in 1..Len(progress.uploadedChunks) :
                                  progress.uploadedChunks[i] = k
                            THEN chunkFiles[uploadId][k] ELSE Absent]]
    /\ resp' = Response("progress", uploadId, 200,
                        IF progress.present THEN "progress" ELSE "null",
                        progress.uploadedChunks, progress.totalChunks)
    /\ UNCHANGED <<outFiles, facilities, nextId, now, req>>

\* exports.getResumableUploadProgress
getResumableUploadProgress(uploadId) ==
    LET progress == getUploadProgress(metadata[uploadId], chunkFiles[uploadId]) IN
    /\ metadata' = [metadata EXCEPT ![uploadId] = progress]
    /\ resp' = Response("progress", uploadId, 200,
                        IF progress.present THEN "progress" ELSE "null",
                        progress.uploadedChunks, progress.totalChunks)
    /\ UNCHANGED <<chunkFiles, outFiles, facilities, nextId, now, req>>

\* exports.uploadChunk: the chunk is saved first, then the progress is read;
\* without a session the progress is null and reading progress.uploadedChunks
\* throws a TypeError, answered by the inner catch with 400.
uploadChunk(uploadId, chunkNumber, chunkData) ==
    IF chunkData = Missing
    THEN /\ resp' = Response("chunk", uploadId, 400, "required", <<>>, 0)
         /\ UNCHANGED <<metadata, chunkFiles, outFiles, facilities, nextId, now, req>>
    ELSE
    LET files == saveChunk(chunkFiles[uploadId], chunkNumber, chunkData)
        progress == getUploadProgress(metadata[uploadId], files)
    IN  /\ chunkFiles' = [chunkFiles EXCEPT ![uploadId] = files]
        /\ metadata' = [metadata EXCEPT ![uploadId] = progress]
        /\ IF progress.present
           THEN resp' = Response("chunk", uploadId, 200, "ok",
                                    progress.uploadedChunks, progress.totalChunks)
           ELSE resp' = Response("chunk", uploadId, 400, "TypeError", <<>>, 0)
        /\ UNCHANGED <<outFiles, facilities, nextId, now, req>>

\* cancelUpload: cleanupChunks, then { cancelled: true }.
cancelUploadMeta(meta) == cleanupChunksMeta(meta)
cancelUploadFiles(meta, files) == cleanupChunksFiles(meta, files)

\* exports.cancelResumableUpload
cancelResumableUpload(uploadId) ==
    IF cleanupChunksThrows(metadata[uploadId])
    THEN /\ resp' = Response("cancel", uploadId, 400, "error", <<>>, 0)
         /\ UNCHANGED <<metadata, chunkFiles, outFiles, facilities, nextId, now, req>>
    ELSE
    /\ chunkFiles' = [chunkFiles EXCEPT ![uploadId] =
                         cancelUploadFiles(metadata[uploadId], @)]
    /\ metadata' = [metadata EXCEPT ![uploadId] = cancelUploadMeta(@)]
    /\ resp' = Response("cancel", uploadId, 200, "cancelled", <<>>, 0)
    /\ UNCHANGED <<outFiles, facilities, nextId, now, req>>

\* cleanupOldUploads(maxAgeHours), run at time t: cleanupChunks for every
\* metadata file whose mtime is more than maxAge before t.
cleanupOldUploads(maxAge, t) ==
    LET old(u) == metadata[u].present /\ t - metadata[u].mtime > maxAge IN
    /\ t >= now
    /\ now' = t
    /\ chunkFiles' = [u \in AllUploadIds |->
                         IF old(u) THEN cleanupChunksFiles(metadata[u], chunkFiles[u])
                         ELSE chunkFiles[u]]
    /\ metadata' = [u \in AllUploadIds |->
                       IF old(u) THEN cleanupChunksMeta(metadata[u]) ELSE metadata[u]]
    /\ UNCHANGED <<outFiles, facilities, nextId, req, resp>>

(***************************************************************************)
(* exports.completeResumableUpload, one action per event of the handler.   *)
(*                                                                         *)
(* The events are: the synchronous start up to the first await, the end    *)
(* of the read stream of each chunk, the 'finish' of the write stream, and *)
(* the result of each registry statement.  The open (with truncation) of   *)
(* the write stream is taken together with createWriteStream, and a        *)
(* registry statement together with the code that handles its result.      *)
(* A chunk is read as a whole: a chunk file unlinked after it was opened   *)
(* is still read to its end.                                               *)
(***************************************************************************)

Answer(r, status, msg, chunks, total) ==
    /\ resp' = Response("complete", req[r].uploadId, status, msg, chunks, total)
    /\ req' = [req EXCEPT ![r] = Idle]

\* Variant of WriteAt that puts the chunk in front of what the file holds.
WriteAtFront(file, pos, data) ==
    IF file = NoFile THEN NoFile ELSE <<data>> \o file

\* A write stream writes at its own file position; the position of the
\* stream of a request is the number of chunks it has piped so far.
WriteAt(file, pos, data) ==
    IF file = NoFile THEN NoFile
    ELSE [i \in 1..(IF Len(file) > pos THEN Len(file) ELSE pos) |->
             IF i = pos THEN data
             ELSE IF i <= Len(file) THEN file[i] ELSE "hole"]

\* writeNextChunk once chunkIndex is set: past the last chunk the write
\* stream is ended; a missing chunk file rejects; else the chunk is piped.
writeNextChunk(files, chunkIndex, totalChunks) ==
    IF chunkIndex > totalChunks THEN "finishing"
    ELSE IF files[chunkIndex] = Absent THEN "rejected"
    ELSE "reading"

\* Lines 342-394 and the synchronous part of assembleChunks: the progress is
\* recomputed, the completeness is checked, the output path is derived from
\* the code and Date.now(), the write stream is created and the first chunk
\* is looked up.  t is the value of Date.now(): the time of the last reading
\* of the clock, or a later one.
completeStart(r, uploadId, facilityCode, t) ==
    LET progress == getUploadProgress(metadata[uploadId], chunkFiles[uploadId])
        finalFilePath == <<facilityCode, t>>
    IN  /\ req[r].pc = "idle"
        /\ t >= now
        /\ \A q \in Requests : q < r => req[q].pc # "idle"
        /\ (progress.present /\ Len(progress.uploadedChunks) = progress.totalChunks)
             => nextId + Cardinality({q \in Requests : req[q].pc # "idle"}) <= MaxRecords
        /\ metadata' = [metadata EXCEPT ![uploadId] = progress]
        /\ IF ~progress.present
           THEN /\ resp' = Response("complete", uploadId, 404,
                                    "Upload session not found", <<>>, 0)
                /\ UNCHANGED <<req, outFiles, now>>
           ELSE IF Len(progress.uploadedChunks) # progress.totalChunks
           THEN /\ resp' = Response("complete", uploadId, 400, "Upload incomplete",
                                    progress.uploadedChunks, progress.totalChunks)
                /\ UNCHANGED <<req, outFiles, now>>
           ELSE LET first == writeNextChunk(chunkFiles[uploadId], 1, progress.totalChunks) IN
                /\ now' = t
                /\ outFiles' = [outFiles EXCEPT ![finalFilePath] = <<>>]
                /\ IF first = "rejected"
                   THEN /\ resp' = Response("complete", uploadId, 400,
                                            "Chunk not found", <<>>, 0)
                        /\ UNCHANGED req
                   ELSE /\ req' = [req EXCEPT ![r] =
                               [pc |-> first,
                                uploadId |-> uploadId, code |-> facilityCode,
                                path |-> finalFilePath,
                                totalChunks |-> progress.totalChunks,
                                chunkIndex |-> 1, victim |-> 0]]
                        /\ UNCHANGED resp
        /\ UNCHANGED <<chunkFiles, facilities, nextId>>

\* The read stream of chunk chunkIndex: opening a chunk file that has been
\* unlinked meanwhile emits 'error' (reject); else the chunk is piped to the
\* write stream and 'end' moves on to the next chunk.
assembleReadChunk(r) ==
    LET uploadId == req[r].uploadId
        k == req[r].chunkIndex
        data == chunkFiles[uploadId][k]
    IN  /\ req[r].pc = "reading"
        /\ IF data = Absent
           THEN /\ Answer(r, 400, "ENOENT", <<>>, 0)
                /\ UNCHANGED outFiles
           ELSE /\ outFiles' = [outFiles EXCEPT ![req[r].path] = WriteAt(@, k, data)]
                /\ LET next == writeNextChunk(chunkFiles[uploadId], k + 1, req[r].totalChunks) IN
                   IF next = "rejected"
                   THEN Answer(r, 400, "Chunk not found", <<>>, 0)
                   ELSE /\ req' = [req EXCEPT ![r].chunkIndex = k + 1, ![r].pc = next]
                        /\ UNCHANGED resp
        /\ UNCHANGED <<metadata, chunkFiles, facilities, nextId, now>>

\* 'finish' of the write stream: cleanupChunks, resolve; the handler resumes,
\* verifies that the file exists and sends the INSERT.
assembleFinish(r) ==
    LET uploadId == req[r].uploadId IN
    /\ req[r].pc = "finishing"
    /\ chunkFiles' = [chunkFiles EXCEPT ![uploadId] =
                         cleanupChunksFiles(metadata[uploadId], @)]
    /\ metadata' = [metadata EXCEPT ![uploadId] = cleanupChunksMeta(@)]
    /\ IF outFiles[req[r].path] = NoFile
       THEN Answer(r, 500, "Failed to assemble uploaded file", <<>>, 0)
       ELSE /\ req' = [req EXCEPT ![r].pc = "insert"]
            /\ UNCHANGED resp
    /\ UNCHANGED <<outFiles, facilities, nextId, now>>

\* INSERT INTO facilities ... VALUES (..., NOW()) RETURNING id; then the
\* SELECT COUNT(*) is sent.  uploadId and totalChunks are not columns of
\* the table: they record which upload the row was written for.
registryInsert(r, t) ==
    /\ req[r].pc = "insert"
    /\ t >= now
    /\ now' = t
    /\ facilities' = facilities \cup
           {[id |-> nextId, facility_code |-> req[r].code,
             file_path |-> req[r].path, uploaded_at |-> t,
             uploadId |-> req[r].uploadId, totalChunks |-> req[r].totalChunks]}
    /\ nextId' = nextId + 1
    /\ req' = [req EXCEPT ![r].pc = "count"]
    /\ UNCHANGED <<metadata, chunkFiles, outFiles, resp>>

\* The last lines of the handler: cleanupChunks and the 200 response.
completeSuccess(r) ==
    LET uploadId == req[r].uploadId IN
    /\ chunkFiles' = [chunkFiles EXCEPT ![uploadId] =
                         cleanupChunksFiles(metadata[uploadId], @)]
    /\ metadata' = [metadata EXCEPT ![uploadId] = cleanupChunksMeta(@)]
    /\ Answer(r, 200, "Upload completed successfully", <<>>, 0)

\* SELECT COUNT(*): over the limit the SELECT of the oldest row is sent,
\* else the handler completes.
registryCount(r) ==
    /\ req[r].pc = "count"
    /\ IF Cardinality(facilities) > MAX_FACILITIES
       THEN /\ req' = [req EXCEPT ![r].pc = "select"]
            /\ UNCHANGED <<metadata, chunkFiles, resp>>
       ELSE completeSuccess(r)
    /\ UNCHANGED <<outFiles, facilities, nextId, now>>

\* SELECT ... ORDER BY uploaded_at ASC LIMIT 1: a row with the least
\* uploaded_at; its file is unlinked when it exists and the DELETE is sent.
registrySelectOldest(r) ==
    /\ req[r].pc = "select"
    /\ IF facilities = {}
       THEN /\ completeSuccess(r)
            /\ UNCHANGED outFiles
       ELSE \E oldFacility \in facilities :
              /\ \A f \in facilities : oldFacility.uploaded_at <= f.uploaded_at
              /\ outFiles' = [outFiles EXCEPT ![oldFacility.file_path] = NoFile]
              /\ req' = [req EXCEPT ![r].pc = "delete", ![r].victim = oldFacility.id]
              /\ UNCHANGED <<metadata, chunkFiles, resp>>
    /\ UNCHANGED <<facilities, nextId, now>>

\* DELETE FROM facilities WHERE id = $1, then the handler completes.
registryDelete(r) ==
    /\ req[r].pc = "delete"
    /\ facilities' = {f \in facilities : f.id # req[r].victim}
    /\ completeSuccess(r)
    /\ UNCHANGED <<outFiles, nextId, now>>

\* Variant of registryFail whose catch unlinks the assembled file.
registryFailUnlink(r) ==
    /\ req[r].pc \in {"insert", "count", "select", "delete"}
    /\ Answer(r, 400, "registry error", <<>>, 0)
    /\ outFiles' = [outFiles EXCEPT ![req[r].path] = NoFile]
    /\ UNCHANGED <<metadata, chunkFiles, facilities, nextId, now>>

\* pool.query rejects (connection lost, statement error): the inner catch
\* answers 400 with the error message.
registryFail(r) ==
    /\ req[r].pc \in {"insert", "count", "select", "delete"}
    /\ Answer(r, 400, "registry error", <<>>, 0)
    /\ UNCHANGED <<metadata, chunkFiles, outFiles, facilities, nextId, now>>

(***************************************************************************)
(* Environment.                                                            *)
(***************************************************************************)

\* The server process dies and is restarted: the requests in flight are
\* gone, the files and the registry stay as they are.
Crash ==
    /\ \E r \in Requests : req[r].pc # "idle"
    /\ req' = [r \in Requests |-> Idle]
    /\ resp' = Response("crash", "", 0, "", <<>>, 0)
    /\ UNCHANGED <<metadata, chunkFiles, outFiles, facilities, nextId, now>>

(***************************************************************************)
(* The browser: ResumableUploadManager of public/resumable-upload.js and   *)
(* the onComplete callback of the upload page. Each fetch is one step: the *)
(* request is answered by the handler, or it is never sent, or (for a      *)
(* chunk) the handler runs and the answer is lost, or the session has      *)
(* expired. The field health keeps the answer to the last health check,    *)
(* onErrorCalls and onCompleteCalls count the callbacks of the run.        *)
(***************************************************************************)
maxRetries == 3
ClientChunkSize == 5 * 1024 * 1024

\* Math.max(...uploadedChunkNumbers) of a non-empty list
MaxOf(l) == CHOOSE m \in {l[j] : j \in 1..Len(l)} : \A j \in 1..Len(l) : l[j] <= m

\* A resume that sends every chunk again.
StartChunkFromOne(uploadedChunkNumbers, totalChunks) == 1

\* startChunk of startUpload
StartChunk(uploadedChunkNumbers, totalChunks) ==
    IF Len(uploadedChunkNumbers) = totalChunks
    THEN totalChunks + 1
    ELSE IF Len(uploadedChunkNumbers) > 0 THEN MaxOf(uploadedChunkNumbers) + 1 ELSE 1

\* A retry test that allows one attempt more.
ShouldRetryInclusive(retryCount) == retryCount <= maxRetries

\* retryCount < this.maxRetries in the catch of uploadChunk
ShouldRetry(retryCount) == retryCount < maxRetries

ServerVars == <<metadata, chunkFiles, outFiles, facilities, nextId, now, req, resp>>

\* startUpload up to the answer of POST /init.
startUploadInit(fileName, fileSize, fileHash) ==
    /\ client.pc = "idle"
    /\ \/ /\ initializeResumableUpload(fileName, fileSize, fileHash)
          /\ client' = IF resp'.status = 200
                       THEN [client EXCEPT !.pc = "progress",
                                           !.uploadId = resp'.uploadId,
                                           !.totalChunks = Ceil(fileSize, ClientChunkSize)]
                       ELSE [client EXCEPT !.pc = "failed", !.error = resp'.msg,
                                           !.onErrorCalls = @ + 1]
       \/ /\ UNCHANGED ServerVars
          /\ client' = [client EXCEPT !.pc = "failed", !.error = "network",
                                      !.onErrorCalls = @ + 1]

\* The continuation of startUpload after this.getUploadProgress: a failed
\* query counts as no chunk uploaded; with nothing left to send startUpload
\* calls onComplete and returns success.
startUploadResume(uploadedChunkNumbers) ==
    LET startChunk == StartChunk(uploadedChunkNumbers, client.totalChunks) IN
    client' = [client EXCEPT !.reported = uploadedChunkNumbers,
                             !.i = startChunk,
                             !.onCompleteCalls =
                                 IF startChunk > client.totalChunks THEN @ + 1 ELSE @,
                             !.pc = IF startChunk > client.totalChunks THEN "done"
                                    ELSE IF startChunk = 1 /\ ~client.sessionHealthChecked
                                    THEN "health" ELSE "chunk"]

startUploadProgress ==
    /\ client.pc = "progress"
    /\ \/ /\ getResumableUploadProgress(client.uploadId)
          /\ startUploadResume(resp'.uploadedChunks)
       \/ /\ UNCHANGED ServerVars
          /\ startUploadResume(<<>>)

\* The answers to GET /health: 200, 401 or a redirect, another status, or
\* no answer at all.
HealthAnswers == {"ok", "auth", "other", "network"}

\* checkSessionHealth, awaited by uploadChunk before the first attempt of
\* chunk 1: the AUTH_REQUIRED thrown for a 401 or a redirect is thrown
\* inside the try and caught by its catch, which returns true like every
\* other path.
checkSessionHealth ==
    /\ client.pc = "health"
    /\ \E answer \in HealthAnswers :
          client' = [client EXCEPT !.health = answer,
                                   !.sessionHealthChecked = (answer = "ok"),
                                   !.pc = "chunk"]
    /\ UNCHANGED ServerVars

\* A catch that retries whatever the error says.
clientChunkFailedRetryAll(message) ==
    client' = [client EXCEPT !.attempts = @ + 1,
                             !.error = message,
                             !.onErrorCalls =
                                 IF ShouldRetry(client.retryCount) THEN @ ELSE @ + 1,
                             !.pc = IF ShouldRetry(client.retryCount)
                                    THEN "delay" ELSE "failed"]

\* The catch of the client's uploadChunk, which calls onError for a lost
\* session, and when it rethrows the catch of startUpload, which calls
\* onError for every error.
clientChunkFailed(message) ==
    client' = [client EXCEPT !.attempts = @ + 1,
                             !.error = message,
                             !.onErrorCalls =
                                 IF message = "AUTH_REQUIRED" THEN @ + 2
                                 ELSE IF ShouldRetry(client.retryCount) THEN @ ELSE @ + 1,
                             !.pc = IF message # "AUTH_REQUIRED"
                                       /\ ShouldRetry(client.retryCount)
                                    THEN "delay" ELSE "failed"]

\* The loop of startUpload after chunk i is acknowledged.
clientChunkAcked ==
    client' = [client EXCEPT !.acked = Append(@, client.i),
                             !.attempts = IF client.i < client.totalChunks THEN 0 ELSE @ + 1,
                             !.retryCount = 0,
                             !.i = @ + 1,
                             !.onCompleteCalls =
                                 IF client.i < client.totalChunks THEN @ ELSE @ + 1,
                             !.pc = IF client.i < client.totalChunks
                                    THEN "chunk" ELSE "done"]

\* One attempt of the client's uploadChunk for chunk i.
clientUploadChunk ==
    /\ client.pc = "chunk"
    /\ \/ /\ \E d \in Contents : uploadChunk(client.uploadId, client.i, d)
          /\ \/ IF resp'.status = 200
                THEN clientChunkAcked
                ELSE clientChunkFailed("Chunk upload failed")
             \/ clientChunkFailed("network")
       \/ /\ UNCHANGED ServerVars
          /\ \E message \in {"network", "AUTH_REQUIRED"} : clientChunkFailed(message)

\* setTimeout(resolve, this.retryDelay), then the next attempt.
clientRetryDelay ==
    /\ client.pc = "delay"
    /\ client' = [client EXCEPT !.pc = "chunk", !.retryCount = @ + 1]
    /\ UNCHANGED ServerVars

\* An onComplete that finalizes whatever the preflight answers.
onCompleteUnchecked ==
    /\ client.pc = "done"
    /\ \/ /\ getResumableUploadProgress(client.uploadId)
          /\ client' = [client EXCEPT !.pc = "finalize"]
       \/ /\ UNCHANGED ServerVars
          /\ client' = [client EXCEPT !.pc = "finalize"]

\* currentUploadManager.onComplete: the preflight before POST /complete.
onComplete ==
    /\ client.pc = "done"
    /\ \/ /\ getResumableUploadProgress(client.uploadId)
          /\ client' = [client EXCEPT !.pc =
                           IF /\ resp'.msg = "progress"
                              /\ Len(resp'.uploadedChunks) = resp'.totalChunks
                           THEN "finalize" ELSE "blocked"]
       \/ /\ UNCHANGED ServerVars
          /\ client' = [client EXCEPT !.pc = "blocked"]

\* currentUploadManager.onComplete after a passed preflight: POST /complete
\* for the facility chosen in the form; the handler runs, or the request is
\* never sent and the catch shows the error.
clientFinalize(facilityCode) ==
    /\ client.pc = "finalize"
    /\ client' = [client EXCEPT !.pc = "finalized"]
    /\ \/ completeStart(1, client.uploadId, facilityCode, now)
       \/ UNCHANGED ServerVars

\* The user submits the form again: a new ResumableUploadManager.
newUploadManager ==
    /\ client.pc \in {"failed", "blocked", "finalize", "finalized"}
    /\ client' = ClientIdle
    /\ UNCHANGED ServerVars

\* The handlers that never await, for the uploads with a hash of H and the
\* chunk contents D.
StoreStepsOf(H, D) ==
    LET U == {generateUploadId(n, s, h) : n \in FileNames, s \in FileSizes \ {0}, h \in H} IN
    \/ \E n \in FileNames \cup {""}, s \in FileSizes, h \in H \cup {""} :
           initializeResumableUpload(n, s, h) /\ UNCHANGED client
    \/ \E u \in U : getResumableUploadProgress(u) /\ UNCHANGED client
    \/ \E u \in U, k \in ChunkNumbers, d \in D \cup {Missing} :
           uploadChunk(u, k, d) /\ UNCHANGED client
    \/ \E u \in U : cancelResumableUpload(u) /\ UNCHANGED client

\* The steps of the server with the complete requests of the set R.
NextOf(R) ==
    \/ StoreStepsOf(FileHashes, Contents)
    \/ \E r \in R, u \in UploadIds, c \in FacilityCodes, t \in Times :
           completeStart(r, u, c, t) /\ UNCHANGED client
    \/ \E r \in R : assembleReadChunk(r) /\ UNCHANGED client
    \/ \E r \in R : assembleFinish(r) /\ UNCHANGED client
    \/ \E r \in R, t \in Times : registryInsert(r, t) /\ UNCHANGED client
    \/ \E r \in R : registryCount(r) /\ UNCHANGED client
    \/ \E r \in R : registrySelectOldest(r) /\ UNCHANGED client
    \/ \E r \in R : registryDelete(r) /\ UNCHANGED client
    \/ \E r \in R : registryFail(r) /\ UNCHANGED client
    \/ Crash /\ UNCHANGED client

Next == NextOf(Requests)

Spec == Init /\ [][Next]_vars

\* One complete request at a time; the other handlers interleave with it.
NextOne == NextOf({1})

SpecOne == Init /\ [][NextOne]_vars

\* One complete request at a time while the registry is down: every
\* INSERT fails.
NextDown ==
    \/ StoreStepsOf(FileHashes, Contents)
    \/ \E u \in UploadIds, c \in FacilityCodes, t \in Times : completeStart(1, u, c, t)
           /\ UNCHANGED client
    \/ assembleReadChunk(1) /\ UNCHANGED client
    \/ assembleFinish(1) /\ UNCHANGED client
    \/ registryFail(1) /\ UNCHANGED client
    \/ Crash /\ UNCHANGED client

SpecDown == Init /\ [][NextDown]_vars

\* The same with chunks that carry one of two contents and a clock that
\* stands still.
NextBytes ==
    \/ StoreStepsOf(FileHashes, MoreContents)
    \/ \E u \in UploadIds, c \in FacilityCodes : completeStart(1, u, c, now)
           /\ UNCHANGED client
    \/ assembleReadChunk(1) /\ UNCHANGED client
    \/ assembleFinish(1) /\ UNCHANGED client
    \/ registryFail(1) /\ UNCHANGED client
    \/ Crash /\ UNCHANGED client

SpecBytes == Init /\ [][NextBytes]_vars

\* A registry at its ceiling and two facilities that have each uploaded
\* all chunks of their own file: the row of HOSP-C was written before,
\* the uploads of HOSP-A and HOSP-B wait for their complete.
UploadOf(code) ==
    generateUploadId("dump.sql", 5242881, IF code = "HOSP-A" THEN "abc123" ELSE "def456")

\* The facility that sends complete request r.
CodeOf(r) == IF r = 1 THEN "HOSP-A" ELSE "HOSP-B"

InitRegistry ==
    LET files == saveChunk(saveChunk([k \in ChunkNumbers |-> Absent], 1, "x"), 2, "x") IN
    /\ now = 0
    /\ metadata = [u \in AllUploadIds |->
                      getUploadProgress(initializeUpload(5242881, 0), files)]
    /\ chunkFiles = [u \in AllUploadIds |-> files]
    /\ outFiles = [p \in Paths |-> IF p = <<"HOSP-C", 0>> THEN <<"x", "x">> ELSE NoFile]
    /\ facilities = {[id |-> 0, facility_code |-> "HOSP-C",
                       file_path |-> <<"HOSP-C", 0>>, uploaded_at |-> 0,
                       uploadId |-> "", totalChunks |-> 2]}
    /\ nextId = 1
    /\ req = [r \in Requests |-> Idle]
    /\ resp = NoResponse
    /\ client = ClientIdle

\* The complete requests of the two facilities, each for its own upload;
\* the registry answers every statement and the server stays up.
NextRegistry ==
    \/ \E r \in Requests, t \in Times :
           completeStart(r, UploadOf(CodeOf(r)), CodeOf(r), t)
           /\ UNCHANGED client
    \/ \E r \in Requests : assembleReadChunk(r) /\ UNCHANGED client
    \/ \E r \in Requests : assembleFinish(r) /\ UNCHANGED client
    \/ \E r \in Requests, t \in Times : registryInsert(r, t)
           /\ UNCHANGED client
    \/ \E r \in Requests : registryCount(r) /\ UNCHANGED client
    \/ \E r \in Requests : registrySelectOldest(r) /\ UNCHANGED client
    \/ \E r \in Requests : registryDelete(r) /\ UNCHANGED client

SpecRegistry == InitRegistry /\ [][NextRegistry]_vars

\* The same with a registry that may fail any statement of a request.
NextEvict ==
    \/ NextRegistry
    \/ \E r \in Requests : registryFail(r) /\ UNCHANGED client

SpecEvict == InitRegistry /\ [][NextEvict]_vars

\* Two uploads that differ in the file hash, and the handlers that never
\* await.
NextUploads == StoreStepsOf(MoreHashes, Contents)

SpecUploads == Init /\ [][NextUploads]_vars

\* Two uploads, the handlers that never await, and the sweep of old
\* sessions at any time of the clock.
NextSweep ==
    \/ StoreStepsOf(MoreHashes, Contents)
    \/ \E a \in MaxAges, t \in Times : cleanupOldUploads(a, t)
           /\ UNCHANGED client

SpecSweep == Init /\ [][NextSweep]_vars

\* The browser uploading one file, another sender of chunks for the same
\* upload, and a cancel between two runs of startUpload.
NextClient ==
    \/ \E n \in FileNames, s \in FileSizes, h \in FileHashes : startUploadInit(n, s, h)
    \/ startUploadProgress
    \/ checkSessionHealth
    \/ clientUploadChunk
    \/ clientRetryDelay
    \/ onComplete
    \/ newUploadManager
    \/ \E u \in UploadIds, k \in ChunkNumbers, d \in Contents :
           uploadChunk(u, k, d) /\ UNCHANGED client
    \/ \E u \in UploadIds :
           client.pc = "idle" /\ cancelResumableUpload(u) /\ UNCHANGED client

SpecClient == Init /\ [][NextClient]_vars

\* Every fetch settles and every timer fires.
SpecClientFair ==
    /\ SpecClient
    /\ WF_vars(checkSessionHealth)
    /\ WF_vars(clientUploadChunk)
    /\ WF_vars(clientRetryDelay)

\* The upload page: the browser as the only sender of complete requests,
\* the server working on the request, another sender of chunks, and a
\* cancel between two runs.
NextPage ==
    \/ \E n \in FileNames, s \in FileSizes, h \in FileHashes : startUploadInit(n, s, h)
    \/ startUploadProgress
    \/ checkSessionHealth
    \/ clientUploadChunk
    \/ clientRetryDelay
    \/ onComplete
    \/ \E c \in FacilityCodes : clientFinalize(c)
    \/ newUploadManager
    \/ assembleReadChunk(1) /\ UNCHANGED client
    \/ assembleFinish(1) /\ UNCHANGED client
    \/ registryInsert(1, now) /\ UNCHANGED client
    \/ registryCount(1) /\ UNCHANGED client
    \/ registrySelectOldest(1) /\ UNCHANGED client
    \/ registryDelete(1) /\ UNCHANGED client
    \/ registryFail(1) /\ UNCHANGED client
    \/ \E u \in UploadIds, k \in ChunkNumbers, d \in Contents :
           uploadChunk(u, k, d) /\ UNCHANGED client
    \/ \E u \in UploadIds :
           client.pc = "idle" /\ cancelResumableUpload(u) /\ UNCHANGED client

SpecPage == Init /\ [][NextPage]_vars

\* One file name and hash with the declared sizes of MoreSizes, and the
\* handlers that read or write the metadata record alone.
NextSizes ==
    \/ \E s \in MoreSizes : initializeResumableUpload("dump.sql", s, "abc123")
           /\ UNCHANGED client
    \/ \E s \in MoreSizes \ {0} :
           getResumableUploadProgress(generateUploadId("dump.sql", s, "abc123"))
           /\ UNCHANGED client
    \/ \E s \in MoreSizes \ {0} :
           cancelResumableUpload(generateUploadId("dump.sql", s, "abc123"))
           /\ UNCHANGED client

SpecSizes == Init /\ [][NextSizes]_vars

(***************************************************************************)
(* Properties.                                                             *)
(***************************************************************************)

\* The chunk numbers of upload u, among 1..totalChunks, whose file exists.
PresentChunks(u) ==
    {k \in ChunkNumbers : k <= metadata[u].totalChunks /\ chunkFiles[u][k] # Absent}

\* The requests that have inserted their facility record.
Inserted == {"count", "select", "delete"}

\* C1: a chunk submitted for an uploadId without a metadata record is
\* rejected as "Upload session not found" and no chunk file is written.
C1_ChunkWithoutSessionRejected ==
    [][\A u \in UploadIds, k \in ChunkNumbers, d \in Contents :
          (uploadChunk(u, k, d) /\ ~metadata[u].present)
          => (chunkFiles' = chunkFiles /\ resp'.msg = "Upload session not found")]_vars

\* C2: complete for a session with fewer than totalChunks chunks present
\* answers "Upload incomplete" with the actual and expected counts, writes
\* no facility record, creates no output file, deletes no chunk file and
\* keeps the metadata record.
C2_IncompleteFinalizeHasNoEffect ==
    [][\A r \in Requests, u \in UploadIds, c \in FacilityCodes, t \in Times :
          (/\ completeStart(r, u, c, t)
           /\ metadata[u].present
           /\ Cardinality(PresentChunks(u)) < metadata[u].totalChunks)
          => /\ resp'.op = "complete" /\ resp'.uploadId = u
             /\ resp'.status = 400 /\ resp'.msg = "Upload incomplete"
             /\ Len(resp'.uploadedChunks) = Cardinality(PresentChunks(u))
             /\ resp'.totalChunks = metadata[u].totalChunks
             /\ facilities' = facilities
             /\ outFiles' = outFiles
             /\ chunkFiles' = chunkFiles
             /\ metadata'[u].present
             /\ req' = req]_vars

C2_Witness ==
    /\ resp.op = "complete" /\ resp.msg = "Upload incomplete"
    /\ Len(resp.uploadedChunks) = 1 /\ resp.totalChunks = 2
    /\ metadata[resp.uploadId].present
    /\ chunkFiles[resp.uploadId][resp.uploadedChunks[1]] # Absent

\* C3: after a successful complete of uploadId the progress of uploadId is
\* not found and no chunk file of uploadId remains.
C3_NothingLeftAfterSuccess ==
    (resp.op = "complete" /\ resp.status = 200)
    => /\ ~metadata[resp.uploadId].present
       /\ \A k \in ChunkNumbers : chunkFiles[resp.uploadId][k] = Absent

\* C4: of two complete requests in flight for the same uploadId at most one
\* inserts a facility record.
C4_AtMostOneConcurrentSuccess ==
    \A r1, r2 \in Requests :
        (r1 # r2 /\ req[r1].pc \in Inserted /\ req[r2].pc \in Inserted)
        => req[r1].uploadId # req[r2].uploadId

\* C5: when a complete that passed the completeness check fails on the
\* registry write, the metadata record and every chunk file 1..totalChunks
\* still exist.
C5_FailureKeepsSession ==
    (resp.op = "complete" /\ resp.msg = "registry error")
    => /\ metadata[resp.uploadId].present
       /\ Cardinality(PresentChunks(resp.uploadId)) = metadata[resp.uploadId].totalChunks

\* The output file of request r holds all totalChunks chunks.
Assembled(path, totalChunks) ==
    /\ outFiles[path] # NoFile
    /\ Len(outFiles[path]) = totalChunks
    /\ \A i \in 1..totalChunks : outFiles[path][i] \in Contents

\* C6: when the server crashes, every upload whose assembly has finished has
\* its session record with all chunks, or a facility record whose file_path
\* is the assembled artifact.
C6_CrashLosesNothing ==
    [][Crash =>
         \A r \in Requests :
            req[r].pc \in {"insert"} \cup Inserted
            => \/ /\ metadata'[req[r].uploadId].present
                  /\ \A k \in 1..req[r].totalChunks :
                        chunkFiles'[req[r].uploadId][k] # Absent
               \/ \E f \in facilities' :
                     /\ f.uploadId = req[r].uploadId
                     /\ Assembled(f.file_path, req[r].totalChunks)]_vars

C8_CancelRemovesEverything ==
    resp.op = "cancel"
    => /\ ~metadata[resp.uploadId].present
       /\ \A k \in ChunkNumbers : chunkFiles[resp.uploadId][k] = Absent

\* C9: cancel always answers success, also without a session, and a second
\* cancel right after it answers success and leaves the store as it is.
C9_CancelIdempotent ==
    [][\A u \in UploadIds :
          cancelResumableUpload(u)
          => /\ resp'.status = 200 /\ resp'.msg = "cancelled"
             /\ ~cleanupChunksThrows(metadata'[u])
             /\ cancelUploadFiles(metadata'[u], chunkFiles'[u]) = chunkFiles'[u]
             /\ cancelUploadMeta(metadata'[u]) = metadata'[u]
             /\ ~metadata[u].present
                => (metadata' = metadata /\ chunkFiles' = chunkFiles)]_vars

C9_Witness ==
    /\ resp.op = "cancel" /\ resp.status = 200
    /\ ~metadata[resp.uploadId].present
    /\ \E k \in ChunkNumbers : chunkFiles[resp.uploadId][k] # Absent

\* C10: for an existing session the progress lists, in ascending order and
\* without duplicates, exactly the chunk numbers of 1..totalChunks whose
\* chunk file exists.
C10_ProgressListsExistingChunks ==
    [][\A u \in UploadIds :
          (getResumableUploadProgress(u) /\ metadata[u].present)
          => LET l == resp'.uploadedChunks IN
             /\ resp'.op = "progress" /\ resp'.msg = "progress"
             /\ \A i \in 1..(Len(l) - 1) : l[i] < l[i + 1]
             /\ {l[i] : i \in 1..Len(l)} = PresentChunks(u)
             /\ resp'.totalChunks = metadata[u].totalChunks]_vars

C10_Witness ==
    /\ resp.op = "progress" /\ resp.msg = "progress"
    /\ resp.uploadedChunks = <<2>> /\ resp.totalChunks = 2
    /\ chunkFiles[resp.uploadId][3] # Absent

\* The number of times chunk number k is listed in l.
Listed(l, k) == Cardinality({i \in 1..Len(l) : l[i] = k})

\* C11: a chunk saved again for an existing session with another content
\* is acknowledged, the chunk file then holds the content of the second
\* write, the progress lists the chunk number once, and the assembly
\* writes at position k what the chunk file k holds when it is read.
C11_SecondWriteWins ==
    [][/\ \A u \in UploadIds, k \in ChunkNumbers, d \in MoreContents :
            (/\ uploadChunk(u, k, d)
             /\ metadata[u].present /\ k <= metadata[u].totalChunks
             /\ chunkFiles[u][k] \notin {Absent, d})
            => /\ resp'.op = "chunk" /\ resp'.status = 200
               /\ chunkFiles'[u][k] = d
               /\ Listed(resp'.uploadedChunks, k) = 1
               /\ Listed(getUploadProgress(metadata'[u], chunkFiles'[u]).uploadedChunks, k) = 1
       /\ (assembleReadChunk(1) /\ chunkFiles[req[1].uploadId][req[1].chunkIndex] # Absent)
            => /\ Len(outFiles'[req[1].path]) >= req[1].chunkIndex
               /\ outFiles'[req[1].path][req[1].chunkIndex]
                     = chunkFiles[req[1].uploadId][req[1].chunkIndex]]_vars

\* Chunk 1 was piped as "x" and has since been saved again as "y".
C11_Witness ==
    /\ resp.op = "chunk" /\ resp.status = 200 /\ resp.uploadedChunks = <<1, 2>>
    /\ metadata[resp.uploadId].present
    /\ chunkFiles[resp.uploadId][1] = "y"
    /\ req[1].pc = "reading" /\ req[1].uploadId = resp.uploadId
    /\ req[1].chunkIndex = 2
    /\ outFiles[req[1].path] = <<"x">>

\* C12: the assembly pipes the chunks 1..totalChunks in ascending numeric
\* order: the read of chunk k appends the content of chunk file k behind
\* the chunks 1..k-1 already written, and at 'finish' the artifact holds
\* totalChunks chunk contents.  The order in which the chunks were saved is
\* no part of the store.
C12_AssemblyInNumericOrder ==
    [][/\ (assembleReadChunk(1) /\ chunkFiles[req[1].uploadId][req[1].chunkIndex] # Absent)
            => LET k == req[1].chunkIndex
                   old == outFiles[req[1].path]
                   new == outFiles'[req[1].path]
               IN  /\ Len(old) = k - 1
                   /\ new = Append(old, chunkFiles[req[1].uploadId][k])
       /\ assembleFinish(1)
            => /\ req'[1].pc = "insert"
               /\ Len(outFiles'[req[1].path]) = req[1].totalChunks
               /\ \A i \in 1..req[1].totalChunks :
                     outFiles'[req[1].path][i] \in MoreContents]_vars

\* The assembly has finished with chunk 1 = "y" and chunk 2 = "x".
C12_Witness ==
    /\ req[1].pc = "insert" /\ req[1].totalChunks = 2
    /\ outFiles[req[1].path] = <<"y", "x">>

\* C13: init with the triple of an existing session succeeds with the same
\* upload id, keeps the chunk files, and the progress read after it lists
\* the same chunks as the progress read before it.
C13_ReinitKeepsChunks ==
    [][\A n \in FileNames, s \in FileSizes \ {0}, h \in FileHashes :
          LET u == generateUploadId(n, s, h) IN
          (initializeResumableUpload(n, s, h) /\ metadata[u].present)
          => /\ resp'.op = "init" /\ resp'.status = 200 /\ resp'.uploadId = u
             /\ metadata'[u].present
             /\ metadata'[u].totalChunks = metadata[u].totalChunks
             /\ chunkFiles' = chunkFiles
             /\ getUploadProgress(metadata'[u], chunkFiles'[u]).uploadedChunks
                   = getUploadProgress(metadata[u], chunkFiles[u]).uploadedChunks]_vars

\* init has answered for the upload that a complete request, started on
\* its full session, is still assembling.
C13_Witness ==
    /\ resp.op = "init" /\ resp.status = 200
    /\ req[1].pc = "reading" /\ req[1].uploadId = resp.uploadId
    /\ metadata[resp.uploadId].uploadedChunks = <<>>
    /\ getUploadProgress(metadata[resp.uploadId], chunkFiles[resp.uploadId]).uploadedChunks
          = <<1, 2>>

C20_ChunkWritesAreIndependent ==
    [][\A u \in AllUploadIds, k \in ChunkNumbers, d \in Contents :
          uploadChunk(u, k, d)
          => /\ chunkFiles'[u][k] = d
             /\ \A u2 \in AllUploadIds, k2 \in ChunkNumbers :
                   (u2 # u \/ k2 # k) => chunkFiles'[u2][k2] = chunkFiles[u2][k2]
             /\ \A k2 \in ChunkNumbers \ {k}, d2 \in MoreContents :
                   saveChunk(saveChunk(chunkFiles[u], k, d), k2, d2)
                     = saveChunk(saveChunk(chunkFiles[u], k2, d2), k, d)]_vars

\* A chunk has been acknowledged for an upload that holds chunks 1 and 2
\* while the other upload holds its chunk 2 alone.
C20_Witness ==
    /\ resp.op = "chunk" /\ resp.status = 200 /\ resp.uploadedChunks = <<1, 2>>
    /\ \E u2 \in AllUploadIds \ {resp.uploadId} :
          /\ metadata[u2].present
          /\ chunkFiles[u2][1] = Absent /\ chunkFiles[u2][2] # Absent

\* C15: when the INSERT of a complete fails after the assembly, the request
\* is answered with a failure, the assembled artifact stays on disk, and
\* the request has written no facility record.
C15_RegistryFailureKeepsArtifact ==
    [][(registryFail(1) /\ req[1].pc = "insert")
          => /\ resp'.op = "complete" /\ resp'.uploadId = req[1].uploadId
             /\ resp'.status = 400
             /\ outFiles[req[1].path] # NoFile
             /\ outFiles' = outFiles
             /\ facilities' = facilities /\ nextId' = nextId
             /\ req'[1].pc = "idle"]_vars

\* The first INSERT ever sent has failed: the artifact is on disk and the
\* registry is empty.
C15_Witness ==
    /\ resp.op = "complete" /\ resp.msg = "registry error"
    /\ nextId = 1 /\ facilities = {}
    /\ \E p \in Paths : outFiles[p] = <<"x", "x">>

\* C16: the registry holds at most one facility record per facility code:
\* two records of the same code are the same record.
C16_OneRecordPerCode ==
    \A f1, f2 \in facilities :
        f1.facility_code = f2.facility_code => f1.id = f2.id

\* The row that request r has selected for eviction.
Victim(r) == {f \in facilities : f.id = req'[r].victim}

\* C17: a complete that counts more rows than the ceiling deletes exactly
\* one row, a row of the least uploaded_at, and unlinks its file; every
\* newer row stays and the file of every newer row stays as it is.
C17_EvictsOldestOnly ==
    [][\A r \in Requests :
          /\ (registrySelectOldest(r) /\ facilities # {})
               => /\ req'[r].pc = "delete"
                  /\ \E v \in facilities :
                        /\ Victim(r) = {v}
                        /\ \A f \in facilities : v.uploaded_at <= f.uploaded_at
                        /\ outFiles'[v.file_path] = NoFile
                        /\ \A f \in facilities :
                              f.uploaded_at > v.uploaded_at
                              => outFiles'[f.file_path] = outFiles[f.file_path]
          /\ registryDelete(r)
               => /\ Cardinality(facilities \ facilities') = 1
                  /\ \A f \in facilities \ facilities' : f.id = req[r].victim
                  /\ facilities' \subseteq facilities]_vars

\* C19: two distinct complete requests that reach the assembly write to
\* different output paths: no two requests in flight share their path and
\* no two facility records share their file_path.
C19_OutputPathUnique ==
    /\ \A r1, r2 \in Requests :
          (r1 # r2 /\ req[r1].pc # "idle" /\ req[r2].pc # "idle")
          => req[r1].path # req[r2].path
    /\ \A f1, f2 \in facilities :
          f1.id # f2.id => f1.file_path # f2.file_path

\* C18: once every complete request has been answered, the registry holds
\* at most MAX_FACILITIES rows.
C18_CeilingHolds ==
    (\A r \in Requests : req[r].pc = "idle")
    => Cardinality(facilities) <= MAX_FACILITIES

\* C21: when the assembly of a complete request fails on a missing chunk,
\* the output file of that request is not left in the uploads directory.
C21_FailedAssemblyLeavesNoArtifact ==
    [][\A r \in Requests :
          (/\ assembleReadChunk(r)
           /\ req'[r].pc = "idle"
           /\ resp'.msg \in {"ENOENT", "Chunk not found"})
          => outFiles'[req[r].path] = NoFile]_vars

\* C22: complete for an upload id without a metadata record answers 404
\* "Upload session not found", which is neither the 400 of a validation
\* error nor the 400 "Upload incomplete", and changes no metadata record,
\* no chunk file, no output file and no facility record.
C22_CompleteWithoutSession ==
    [][\A r \in Requests, u \in UploadIds, c \in FacilityCodes, t \in Times :
          (completeStart(r, u, c, t) /\ ~metadata[u].present)
          => /\ resp' = Response("complete", u, 404, "Upload session not found", <<>>, 0)
             /\ resp'.status # 400 /\ resp'.msg # "Upload incomplete"
             /\ metadata' = metadata /\ chunkFiles' = chunkFiles
             /\ outFiles' = outFiles
             /\ facilities' = facilities /\ nextId' = nextId
             /\ req' = req]_vars

\* complete has answered 404 for an upload whose session was removed while
\* a chunk file of it is on disk.
C22_Witness ==
    /\ resp.op = "complete" /\ resp.status = 404
    /\ ~metadata[resp.uploadId].present
    /\ \E k \in ChunkNumbers : chunkFiles[resp.uploadId][k] # Absent

\* C23: init with a missing fileName, fileSize or fileHash answers 400 and
\* writes no metadata record; with all three present it answers 200 with
\* the id generateUploadId(fileName, fileSize, fileHash) and the chunk size,
\* and the metadata record of that id exists with status in_progress.
C23_InitValidates ==
    [][\A n \in FileNames \cup {""}, s \in FileSizes, h \in MoreHashes \cup {""} :
          initializeResumableUpload(n, s, h)
          => IF n = "" \/ s = 0 \/ h = ""
             THEN /\ resp'.op = "init" /\ resp'.status = 400
                  /\ metadata' = metadata /\ chunkFiles' = chunkFiles
             ELSE /\ resp'.op = "init" /\ resp'.status = 200
                  /\ resp'.uploadId = generateUploadId(n, s, h)
                  /\ resp'.chunkSize = DefaultChunkSize
                  /\ metadata'[resp'.uploadId].present
                  /\ metadata'[resp'.uploadId].status = "in_progress"]_vars

\* init has answered 400 while the session of one hash exists and the
\* session of the other hash does not.
C23_Witness ==
    /\ resp.op = "init" /\ resp.status = 400
    /\ \E u1, u2 \in AllUploadIds :
          /\ metadata[u1].present /\ metadata[u1].status = "in_progress"
          /\ ~metadata[u2].present

\* n is ceil(size / chunkSize) and at least 1: the least n >= 1 with
\* n * chunkSize >= size.
IsChunkCount(n, size, chunkSize) ==
    /\ n >= 1
    /\ n * chunkSize >= size
    /\ (n - 1) * chunkSize < size

\* C24: for every file size that init accepts, the totalChunks of the
\* session is ceil(fileSize / chunkSize) and at least 1, for the chunk size
\* of the handler and for every chunk size given to initializeUpload.
C24_TotalChunksIsCeiling ==
    [][\A s \in MoreSizes :
          (initializeResumableUpload("dump.sql", s, "abc123") /\ resp'.status = 200)
          => /\ IsChunkCount(metadata'[resp'.uploadId].totalChunks, s, resp'.chunkSize)
             /\ \A c \in ChunkSizes \ {0} :
                   IsChunkCount(initializeUpload(s, c).totalChunks, s, c)]_vars

\* C25: the sweep removes the metadata record and every chunk file of each
\* session whose metadata was last written more than maxAge before the
\* sweep, and leaves the metadata and the chunk files of every other upload
\* as they are.
C25_SweepRemovesOldSessionsOnly ==
    [][\A a \in MaxAges, t \in Times :
          cleanupOldUploads(a, t)
          => \A u \in AllUploadIds :
                IF metadata[u].present /\ t - metadata[u].mtime > a
                THEN /\ ~metadata'[u].present
                     /\ \A k \in ChunkNumbers : chunkFiles'[u][k] = Absent
                ELSE /\ metadata'[u] = metadata[u]
                     /\ chunkFiles'[u] = chunkFiles[u]]_vars

\* C26: in every reachable state every chunk file stored for a session has
\* a chunk number between 1 and the totalChunks of that session.
C26_ChunkNumbersInRange ==
    \A u \in AllUploadIds, k \in ChunkNumbers :
       (metadata[u].present /\ chunkFiles[u][k] # Absent)
       => (1 <= k /\ k <= metadata[u].totalChunks)

\* C27: a progress query leaves every chunk file, every output file and
\* the registry as they are, creates no session and removes none, changes
\* no other upload's metadata nor the queried session's totalChunks, and
\* for an uploadId without metadata it answers null and writes nothing.
C27_ProgressIsPassthrough ==
    [][\A u \in AllUploadIds :
          getResumableUploadProgress(u)
          => /\ chunkFiles' = chunkFiles
             /\ outFiles' = outFiles /\ facilities' = facilities
             /\ \A v \in AllUploadIds :
                   /\ metadata'[v].present = metadata[v].present
                   /\ metadata'[v].totalChunks = metadata[v].totalChunks
                   /\ v # u => metadata'[v] = metadata[v]
             /\ ~metadata[u].present
                => /\ metadata' = metadata
                   /\ resp'.msg = "null" /\ resp'.uploadedChunks = <<>>]_vars

C27_Witness ==
    /\ resp.op = "progress" /\ resp.msg = "null"
    /\ ~metadata[resp.uploadId].present
    /\ \E k \in ChunkNumbers : chunkFiles[resp.uploadId][k] # Absent
    /\ \E v \in AllUploadIds : metadata[v].present

\* C28: one call of the client's uploadChunk makes at most maxRetries + 1
\* attempts with one retry delay between two attempts; a chunk counts as
\* acknowledged only on the handler's 200 for it; the call gives up only
\* for a lost session or after the last attempt failed; and every call
\* ends.
C28_RetryIsBounded ==
    /\ [](client.attempts <= maxRetries + 1)
    /\ [](client.pc = "chunk" => client.attempts = client.retryCount)
    /\ [](client.pc = "delay" => client.attempts = client.retryCount + 1)
    /\ []((client.pc = "failed" /\ client.attempts > 0)
             => \/ client.error = "AUTH_REQUIRED"
                \/ client.attempts = maxRetries + 1)
    /\ [][Len(client'.acked) > Len(client.acked)
             => /\ client.pc = "chunk"
                /\ client'.acked = Append(client.acked, client.i)
                /\ resp'.op = "chunk" /\ resp'.status = 200
                /\ chunkFiles'[client.uploadId][client.i] # Absent]_vars
    /\ \A k \in ChunkNumbers :
          (client.pc \in {"health", "chunk", "delay"} /\ client.i = k)
             ~> ~(client.pc \in {"health", "chunk", "delay"} /\ client.i = k)

C28_Witness ==
    /\ client.pc = "failed" /\ client.error = "network"
    /\ client.attempts = maxRetries + 1
    /\ client.acked = <<1>> /\ client.i = 2

\* The chunk after the highest chunk number the progress query reported.
FirstToSend == IF client.reported = <<>> THEN 1 ELSE MaxOf(client.reported) + 1

\* C29: the chunks startUpload has had acknowledged are FirstToSend,
\* FirstToSend + 1, ... in this order; the chunk it is sending is the one
\* after the last acknowledged; and it returns success exactly when the
\* chunks up to totalChunks are acknowledged (none is sent when the query
\* reported them all, all of 1..totalChunks when it reported none).
C29_ResumesAfterLastReported ==
    /\ client.acked = [j \in 1..Len(client.acked) |-> FirstToSend + j - 1]
    /\ client.pc \in {"health", "chunk", "delay"}
          => /\ client.i = FirstToSend + Len(client.acked)
             /\ client.i <= client.totalChunks
    /\ client.pc = "done"
          => FirstToSend + Len(client.acked) = client.totalChunks + 1

C29_Witness ==
    /\ client.pc = "done" /\ client.totalChunks = 2
    /\ client.reported = <<1>> /\ client.acked = <<2>>

\* C30: when startUpload returns success, with no cancel since it was
\* called, every chunk file 1..totalChunks of the upload is on the server.
C30_SuccessMeansAllChunksStored ==
    [][(client.pc # "done" /\ client'.pc = "done")
          => \A k \in 1..client'.totalChunks :
                chunkFiles'[client'.uploadId][k] # Absent]_vars

\* C31: the browser gets ready to finalize only by a preflight progress
\* query, made after startUpload returned, that is answered with a
\* session whose uploadedChunks has totalChunks entries; a complete
\* request reaches the server only from there; and a preflight that fails
\* or reports fewer chunks sends nothing.
C31_FinalizeOnlyAfterPreflight ==
    [][/\ (client'.pc = "finalize" /\ client.pc # "finalize")
             => /\ client.pc = "done"
                /\ resp'.op = "progress" /\ resp'.status = 200 /\ resp'.msg = "progress"
                /\ resp'.uploadId = client.uploadId
                /\ Len(resp'.uploadedChunks) = resp'.totalChunks
                /\ \A k \in 1..resp'.totalChunks :
                      chunkFiles'[client.uploadId][k] # Absent
       /\ ((req[1].pc = "idle" /\ req'[1].pc # "idle")
             \/ (resp'.op = "complete" /\ req[1].pc = "idle" /\ resp' # resp))
             => /\ client.pc = "finalize" /\ client'.pc = "finalized"
                /\ resp'.uploadId = client.uploadId \/ req'[1].uploadId = client.uploadId
       /\ (client.pc = "done" /\ client'.pc = "blocked")
             => /\ req' = req /\ outFiles' = outFiles /\ facilities' = facilities
                /\ resp' = resp \/ resp'.op = "progress"]_vars

\* The preflight passed after the browser itself sent the last chunk, and
\* the complete request is being assembled.
C31_Witness ==
    /\ client.pc = "finalized" /\ client.acked = <<2>> /\ client.reported = <<1>>
    /\ req[1].pc = "reading" /\ req[1].uploadId = client.uploadId

\* C32: when init creates the session of an uploadId that had none, a
\* progress query that follows at once reports no uploaded chunk.
C32_NewSessionStartsEmpty ==
    [][\A n \in FileNames, s \in FileSizes, h \in MoreHashes :
          LET u == generateUploadId(n, s, h) IN
          (/\ s # 0
           /\ initializeResumableUpload(n, s, h)
           /\ resp'.status = 200
           /\ ~metadata[u].present)
          => getUploadProgress(metadata'[u], chunkFiles'[u]).uploadedChunks = <<>>]_vars

\* C33: whenever no complete request is in flight and no two facility
\* records share a file_path, the file_path of every facility record names
\* a file that exists.
C33_RecordsHaveBackingFile ==
    (/\ \A r \in Requests : req[r].pc = "idle"
     /\ \A f, g \in facilities : f.file_path = g.file_path => f = g)
    => \A f \in facilities : outFiles[f.file_path] # NoFile

\* C34: the uploadedSize a progress query reports for a session is at most
\* the declared fileSize, and equals it when all totalChunks chunks are
\* present.
C34_UploadedSizeWithinFileSize ==
    [][\A u \in AllUploadIds :
          (getResumableUploadProgress(u) /\ metadata[u].present)
          => /\ metadata'[u].uploadedSize <= metadata'[u].fileSize
             /\ Len(resp'.uploadedChunks) = resp'.totalChunks
                => metadata'[u].uploadedSize = metadata'[u].fileSize]_vars

\* C35: a chunk attempt that ends with AUTH_REQUIRED ends startUpload with
\* that error at once, without a retry delay and without touching the
\* server; a startUpload that has failed sends nothing more and never
\* reaches onComplete.
C35_AuthFailureIsFinal ==
    [][/\ (client.pc = "chunk" /\ client'.error = "AUTH_REQUIRED")
             => /\ client'.pc = "failed"
                /\ client'.i = client.i /\ client'.acked = client.acked
                /\ client'.retryCount = client.retryCount
                /\ client'.attempts = client.attempts + 1
                /\ UNCHANGED ServerVars
       /\ client.error = "AUTH_REQUIRED" => client.pc = "failed"
       /\ client.pc = "failed"
             => /\ client' = client \/ client' = ClientIdle
                /\ client' = client \/ UNCHANGED ServerVars]_vars

\* The session was lost on the first retry of chunk 2, after chunk 1 had
\* been acknowledged.
C35_Witness ==
    /\ client.pc = "failed" /\ client.error = "AUTH_REQUIRED"
    /\ client.acked = <<1>> /\ client.i = 2
    /\ client.retryCount = 1 /\ client.attempts = 2

\* C36: a health check answered with 401 or a redirect ends the upload
\* with AUTH_REQUIRED before any chunk is sent.
C36_DeadSessionSendsNoChunk ==
    [][(client.pc = "health" /\ client'.health = "auth")
          => client'.pc = "failed" /\ client'.error = "AUTH_REQUIRED"]_vars

\* C37: a startUpload that has failed has called onError once and
\* onComplete not at all.
C37_OneErrorCallbackPerFailure ==
    client.pc = "failed" => (client.onErrorCalls = 1 /\ client.onCompleteCalls = 0)

====
